---- MODULE Spec2Model ----
(***************************************************************************)
(* A model of the two planning scripts of the repository,                  *)
(* optimize_throughput.py and optimize_workflow.py: the candidate search   *)
(* best_thread_count and the control flow of main (precondition checks,    *)
(* full-batch optimisation, ideal shortcut, single batch, two phases).     *)
(*                                                                         *)
(* Numbers.  Minutes of the runtime tables are integers in 1/Scale minute. *)
(* A throughput conc / rt_min * 60 is the exact fraction <<conc, rt>> in   *)
(* jobs per 1/Scale minute, so that jobs/h = n/d * 60 * Scale; a time      *)
(* jobs / tph * 3600 is the exact fraction of seconds <<n, d>>.  GB of RAM *)
(* are integers and the fractions safe_mem and k are pairs <<num, den>>.   *)
(***************************************************************************)
EXTENDS Integers, Sequences, FiniteSets, TLC

VARIABLES
    prog,      \* which script runs
    args,      \* the parsed command line
    hw,        \* detect_hardware() and detect_cpu_freq_mhz(): the snapshot
    table,     \* RUNTIME_TABLE[args.workflow]
    pc,        \* position of main
    curve,     \* main's local curve: the table filtered to t <= cores
    full,      \* result of the unconstrained optimizer call
    k,         \* scaling factor
    plan,      \* what main computes and reports after the first call
    calls,     \* every call of best_thread_count made so far, in order
    loop       \* one execution of the loop of best_thread_count

vars == <<prog, args, hw, table, pc, curve, full, k, plan, calls, loop>>

(***************************************************************************)
(* Bounds of the model.                                                    *)
(***************************************************************************)
MaxCores == 33
MaxSubjects == 10
MaxLoopT == 3
MaxLoopCores == 4
MaxLoopJobs == 2

Scale == 10000

RamValues == {16, 64}
MemValues == {1, 8, 16, 100}
SafeMemValues == {<<9, 10>>, <<1, 1>>}
FreqScaleValues == {<<3, 2>>}
CpuMhzValues == {1850, 3700}

(***************************************************************************)
(* Program constants.                                                      *)
(***************************************************************************)
REFERENCE_CPU_FREQ_MHZ == 3700
CAP_THREADS == 24

throughput_RUNTIME_TABLE ==
    [ sswarper |-> (1 :> 1259800 @@ 2 :> 869350 @@ 3 :> 743130 @@ 4 :> 652900 @@
                    8 :> 502550 @@ 12 :> 459900 @@ 16 :> 443500 @@ 24 :> 437500 @@
                    32 :> 444000),
      afni_proc |-> (1 :> 238020 @@ 2 :> 207500 @@ 3 :> 190780 @@ 4 :> 189540 @@
                     8 :> 176140 @@ 12 :> 171990 @@ 16 :> 171055 @@ 24 :> 169370 @@
                     32 :> 171290) ]

workflow_RUNTIME_TABLE ==
    [ sswarper |-> (1 :> 1259800 @@ 2 :> 869350 @@ 3 :> 743130 @@ 4 :> 652900 @@
                    8 :> 502550 @@ 12 :> 459900 @@ 16 :> 443500 @@ 24 :> 437500 @@
                    32 :> 444000),
      afni_proc |-> (1 :> 238020 @@ 2 :> 207500 @@ 3 :> 190780 @@ 4 :> 189540 @@
                     8 :> 176140 @@ 12 :> 171990 @@ 16 :> 171055 @@ 24 :> 169370 @@
                     32 :> 171290),
      mriqc |-> (1 :> 900000 @@ 2 :> 650000 @@ 4 :> 480000 @@ 8 :> 350000 @@
                 12 :> 320000) ]

DEFAULT_MEM_GB == [ mriqc |-> 10 ]

(***************************************************************************)
(* Exact fractions <<n, d>> with d > 0.                                    *)
(***************************************************************************)
RECURSIVE GCD(_, _)
GCD(a, b) == IF b = 0 THEN a ELSE GCD(b, a % b)

Min(S) == CHOOSE x \in S : \A y \in S : x <= y
Max(S) == CHOOSE x \in S : \A y \in S : x >= y

Rat(n, d) == LET g == GCD(n, d) IN <<n \div g, d \div g>>

RatMul(x, y) ==
    LET g1 == GCD(x[1], y[2])
        g2 == GCD(y[1], x[2])
    IN  <<(x[1] \div g1) * (y[1] \div g2), (x[2] \div g2) * (y[2] \div g1)>>

RatAdd(x, y) ==
    LET g == GCD(x[2], y[2])
    IN  Rat(x[1] * (y[2] \div g) + y[1] * (x[2] \div g), (x[2] \div g) * y[2])

RatEq(x, y) == x[1] * y[2] = y[1] * x[2]
RatLess(x, y) == x[1] * y[2] < y[1] * x[2]

\* conc / rt_min * 60
JobsPerHour(conc, rt_min) == <<conc, rt_min>>

\* ref_tph * k
Scaled(ref_tph, kk) == <<ref_tph[1] * kk[1], ref_tph[2] * kk[2]>>

\* jobs / tph * 3600, in seconds: 3600 / (60 * Scale) = 3 / 500
Seconds(jobs, tph) == RatMul(RatMul(<<jobs, 1>>, <<tph[2], tph[1]>>), Rat(3600, 60 * Scale))

(***************************************************************************)
(* best_thread_count.                                                      *)
(***************************************************************************)
None == <<>>

\* int(total_ram * safe_frac // mem_per_job) or 1
ram_conc(total_ram, safe_frac, mem_per_job) ==
    LET q == (total_ram * safe_frac[1]) \div (mem_per_job * safe_frac[2])
    IN  IF q = 0 THEN 1 ELSE q



\* cpu_conc without the "or 1"
cpu_conc_no_floor(cores, t) == cores \div t

\* cpu_conc rounding the quotient up instead of down
cpu_conc_round_up(cores, t) == (cores + t - 1) \div t

\* cores // t or 1
cpu_conc(cores, t) ==
    LET q == cores \div t IN IF q = 0 THEN 1 ELSE q


\* conc without the cap of max_jobs
conc_of_without_max_jobs(rc, cc, max_jobs) == IF rc < cc THEN rc ELSE cc

\* conc = min(ram_conc, cpu_conc); if max_jobs is not None: min(conc, max_jobs)
conc_of(rc, cc, max_jobs) ==
    LET c == IF rc < cc THEN rc ELSE cc
    IN  IF max_jobs # None /\ max_jobs[1] < c THEN max_jobs[1] ELSE c

\* the candidate (tph, t, conc) of one thread count
candidate(inp, t) ==
    LET conc == conc_of(ram_conc(inp.total_ram, inp.safe_frac, inp.mem_per_job),
                        cpu_conc(inp.cores, t), inp.max_jobs)
    IN  [tph |-> JobsPerHour(conc, inp.runtime_curve[t]), t |-> t, conc |-> conc]


\* a comparison of the throughputs alone
cand_greater_throughput_only(cand, best) == RatLess(best.tph, cand.tph)

\* cand > best on tuples (tph, t, conc): left to right
cand_greater(cand, best) ==
    \/ RatLess(best.tph, cand.tph)
    \/ /\ RatEq(best.tph, cand.tph)
       /\ \/ cand.t > best.t
          \/ cand.t = best.t /\ cand.conc > best.conc

\* one iteration of the loop: if best is None or cand > best: best = cand
loop_body(best, inp, t) ==
    LET cand == candidate(inp, t)
    IN  IF best = None \/ cand_greater(cand, best[1]) THEN <<cand>> ELSE best

\* the loop over runtime_curve.items(), in the order of the dict (ascending
\* keys: the order the tables are written in, kept by main's filter)
RECURSIVE iterate(_, _, _)
iterate(todo, best, inp) ==
    IF todo = {} THEN best
    ELSE LET t == Min(todo) IN iterate(todo \ {t}, loop_body(best, inp, t), inp)

\* what the function gives back: (threads, concurrency, tph), or RuntimeError
result_of(best) ==
    IF best = None
    THEN [raised |-> TRUE, thr |-> 0, conc |-> 0, tph |-> <<0, 1>>]
    ELSE [raised |-> FALSE, thr |-> best[1].t, conc |-> best[1].conc, tph |-> best[1].tph]

best_thread_count(inp) == result_of(iterate(DOMAIN inp.runtime_curve, None, inp))

Input(c, total_ram, mem_per_job, safe_frac, cores, max_jobs) ==
    [runtime_curve |-> c, total_ram |-> total_ram, mem_per_job |-> mem_per_job,
     safe_frac |-> safe_frac, cores |-> cores, max_jobs |-> max_jobs]


(***************************************************************************)
(* best_thread_count of optimize_workflow.py: the same search, with        *)
(* ram_conc computed once before the loop.                                 *)
(***************************************************************************)
workflow_candidate(inp, rc, t) ==
    LET conc == conc_of(rc, cpu_conc(inp.cores, t), inp.max_jobs)
    IN  [tph |-> JobsPerHour(conc, inp.runtime_curve[t]), t |-> t, conc |-> conc]

workflow_loop_body(best, inp, rc, t) ==
    LET cand == workflow_candidate(inp, rc, t)
    IN  IF best = None \/ cand_greater(cand, best[1]) THEN <<cand>> ELSE best

RECURSIVE workflow_iterate(_, _, _, _)
workflow_iterate(todo, best, inp, rc) ==
    IF todo = {} THEN best
    ELSE LET t == Min(todo)
         IN  workflow_iterate(todo \ {t}, workflow_loop_body(best, inp, rc, t), inp, rc)

workflow_best_thread_count(inp) ==
    result_of(workflow_iterate(DOMAIN inp.runtime_curve, None, inp,
                               ram_conc(inp.total_ram, inp.safe_frac, inp.mem_per_job)))

(***************************************************************************)
(* main: what both scripts share.                                          *)
(***************************************************************************)

\* the whole table, unfiltered
curve_filter_keeps_all(tbl, cores) == tbl

\* curve = {t: m for t, m in RUNTIME_TABLE[args.workflow].items() if t <= cores}
curve_filter(tbl, cores) == [t \in {x \in DOMAIN tbl : x <= cores} |-> tbl[t]]

\* k = args.freq_scale if given, else cpu_mhz / REFERENCE_CPU_FREQ_MHZ
scaling_factor(freq_scale, cpu_mhz) ==
    IF freq_scale # None THEN freq_scale[1] ELSE Rat(cpu_mhz, REFERENCE_CPU_FREQ_MHZ)

NoPlan ==
    [path |-> "none", report |-> <<>>,
     thr |-> 0, jobs |-> 0, tph |-> <<0, 1>>, ideal |-> 0, rt_min |-> <<0, 1>>,
     full_batches |-> 0, full_jobs |-> 0, remainder |-> 0,
     thr_rem |-> 0, jobs_rem |-> 0, tph_rem |-> <<0, 1>>,
     t1 |-> None, t2 |-> None, total_time |-> None]

NoResult == [raised |-> FALSE, thr |-> 0, conc |-> 0, tph |-> <<0, 1>>]

Call(inp, ret) == [inp |-> inp, ret |-> ret]


(***************************************************************************)
(* main of optimize_throughput.py.                                         *)
(***************************************************************************)

\* the shortcut that takes the nearest key's runtime and keeps ideal as it was
ideal_shortcut_without_reset(tbl, cores, subjects) ==
    LET q == cores \div subjects
        floored == IF q < 1 THEN 1 ELSE q
        ideal == IF floored < CAP_THREADS THEN floored ELSE CAP_THREADS
        keys == DOMAIN tbl
        below == {t \in keys : t < ideal}
        above == {t \in keys : t > ideal}
    IN  IF ideal \in keys
        THEN [ideal |-> ideal, rt_min |-> <<tbl[ideal], 1>>]
        ELSE IF below # {} /\ above # {}
        THEN LET lower == Max(below)
                 upper == Min(above)
             IN  [ideal |-> ideal,
                  rt_min |-> Rat(tbl[lower] * (upper - lower)
                                   + (tbl[upper] - tbl[lower]) * (ideal - lower),
                                 upper - lower)]
        ELSE LET t_near == IF below # {} THEN Max(below) ELSE Min(above)
             IN  [ideal |-> ideal, rt_min |-> <<tbl[t_near], 1>>]

\* lines 209-224: the ideal thread count and the runtime used for it
ideal_shortcut(tbl, cores, subjects) ==
    LET q == cores \div subjects
        floored == IF q < 1 THEN 1 ELSE q
        ideal == IF floored < CAP_THREADS THEN floored ELSE CAP_THREADS
        keys == DOMAIN tbl
        below == {t \in keys : t < ideal}
        above == {t \in keys : t > ideal}
    IN  IF ideal \in keys
        THEN [ideal |-> ideal, rt_min |-> <<tbl[ideal], 1>>]
        ELSE IF below # {} /\ above # {}
        THEN LET lower == Max(below)
                 upper == Min(above)
             IN  [ideal |-> ideal,
                  rt_min |-> Rat(tbl[lower] * (upper - lower)
                                   + (tbl[upper] - tbl[lower]) * (ideal - lower),
                                 upper - lower)]
        ELSE LET t_near == IF below # {} THEN Max(below) ELSE Min(above)
             IN  [ideal |-> t_near, rt_min |-> <<tbl[t_near], 1>>]

\* the arguments main passes to best_thread_count (lines 183-185, 242-245, 276-279)
throughput_call(max_jobs) ==
    Input(curve, hw.ram, args.mem_per_job[1], args.safe_mem, hw.cores, max_jobs)


\* the number of batches rounded up
throughput_full_batches_round_up(total, best_conc_full) ==
    (total + best_conc_full - 1) \div best_conc_full

\* line 267: full_batches = total // best_conc_full
throughput_full_batches(total, best_conc_full) == total \div best_conc_full


\* the checks without the test of mem-per-job against RAM
throughput_check_without_ram_test ==
    /\ prog = "optimize_throughput"
    /\ pc = "start"
    /\ curve' = curve_filter(table, hw.cores)
    /\ pc' = IF DOMAIN curve' = {} THEN "SystemExit" ELSE "full"
    /\ UNCHANGED <<prog, args, hw, table, full, k, plan, calls, loop>>

\* lines 169-180: mem-per-job against RAM, then the curve filter
throughput_check ==
    /\ prog = "optimize_throughput"
    /\ pc = "start"
    /\ IF args.mem_per_job[1] > hw.ram
       THEN pc' = "SystemExit" /\ UNCHANGED curve
       ELSE /\ curve' = curve_filter(table, hw.cores)
            /\ pc' = IF DOMAIN curve' = {} THEN "SystemExit" ELSE "full"
    /\ UNCHANGED <<prog, args, hw, table, full, k, plan, calls, loop>>

\* lines 182-205: the unconstrained call, k, and the header of the report
throughput_full ==
    /\ prog = "optimize_throughput"
    /\ pc = "full"
    /\ LET inp == throughput_call(None)
           ret == best_thread_count(inp)
       IN  /\ calls' = Append(calls, Call(inp, ret))
           /\ full' = ret
           /\ IF ret.raised
              THEN pc' = "RuntimeError" /\ UNCHANGED <<k, plan>>
              ELSE /\ k' = scaling_factor(args.freq_scale, hw.cpu_mhz)
                   /\ plan' = [plan EXCEPT !.report = <<"header">>]
                   /\ pc' = "plan"
    /\ UNCHANGED <<prog, args, hw, table, curve, loop>>

\* lines 207-237: ideal shortcut
throughput_ideal ==
    /\ prog = "optimize_throughput"
    /\ pc = "plan"
    /\ args.subjects > 0 /\ hw.cores > args.subjects
    /\ LET sc == ideal_shortcut(table, hw.cores, args.subjects)
           best_conc == args.subjects
           tph == Scaled(<<best_conc * sc.rt_min[2], sc.rt_min[1]>>, k)
       IN  plan' = [plan EXCEPT !.path = "ideal",
                                !.ideal = sc.ideal, !.rt_min = sc.rt_min,
                                !.thr = sc.ideal, !.jobs = best_conc, !.tph = tph,
                                !.total_time = Seconds(args.subjects, tph),
                                !.report = plan.report \o <<"config", "time">>]
    /\ pc' = "done"
    /\ UNCHANGED <<prog, args, hw, table, curve, full, k, calls, loop>>

\* lines 239-256: single batch
throughput_single ==
    /\ prog = "optimize_throughput"
    /\ pc = "plan"
    /\ ~(args.subjects > 0 /\ hw.cores > args.subjects)
    /\ args.subjects > 0 /\ args.subjects <= full.conc
    /\ LET total == args.subjects
           inp == throughput_call(<<total>>)
           ret == best_thread_count(inp)
       IN  /\ calls' = Append(calls, Call(inp, ret))
           /\ IF ret.raised
              THEN pc' = "RuntimeError" /\ UNCHANGED plan
              ELSE /\ plan' = [plan EXCEPT !.path = "single",
                                           !.thr = ret.thr, !.jobs = ret.conc,
                                           !.tph = Scaled(ret.tph, k),
                                           !.total_time = Seconds(total, Scaled(ret.tph, k)),
                                           !.report = plan.report \o <<"config", "time">>]
                   /\ pc' = "done"
    /\ UNCHANGED <<prog, args, hw, table, curve, full, k, loop>>

\* lines 258-274: phase 1 of the two-phase fallback
throughput_phase1 ==
    /\ prog = "optimize_throughput"
    /\ pc = "plan"
    /\ ~(args.subjects > 0 /\ hw.cores > args.subjects)
    /\ ~(args.subjects > 0 /\ args.subjects <= full.conc)
    /\ LET tph_full == Scaled(full.tph, k)
       IN  IF args.subjects > 0
           THEN LET total == args.subjects
                    full_batches == throughput_full_batches(total, full.conc)
                    full_jobs == full_batches * full.conc
                IN  /\ plan' = [plan EXCEPT !.path = "two_phase",
                                            !.thr = full.thr, !.jobs = full.conc,
                                            !.tph = tph_full,
                                            !.full_batches = full_batches,
                                            !.full_jobs = full_jobs,
                                            !.t1 = Seconds(full_jobs, tph_full),
                                            !.remainder = total - full_jobs,
                                            !.report = plan.report \o <<"phase1", "time1">>]
                    /\ pc' = "remainder"
           ELSE /\ plan' = [plan EXCEPT !.path = "two_phase",
                                        !.thr = full.thr, !.jobs = full.conc,
                                        !.tph = tph_full,
                                        !.report = plan.report \o <<"phase1">>]
                /\ pc' = "done"
    /\ UNCHANGED <<prog, args, hw, table, curve, full, k, calls, loop>>

\* lines 275-294: the remainder batch and the total
throughput_phase2 ==
    /\ prog = "optimize_throughput"
    /\ pc = "remainder"
    /\ IF plan.remainder > 0
       THEN LET inp == throughput_call(<<plan.remainder>>)
                ret == best_thread_count(inp)
                tph_rem == Scaled(ret.tph, k)
                t2 == Seconds(plan.remainder, tph_rem)
            IN  /\ calls' = Append(calls, Call(inp, ret))
                /\ IF ret.raised
                   THEN pc' = "RuntimeError" /\ UNCHANGED plan
                   ELSE /\ plan' = [plan EXCEPT !.thr_rem = ret.thr, !.jobs_rem = ret.conc,
                                                !.tph_rem = tph_rem, !.t2 = t2,
                                                !.total_time = RatAdd(plan.t1, t2),
                                                !.report = plan.report
                                                           \o <<"phase2", "time2", "total">>]
                        /\ pc' = "done"
       ELSE pc' = "done" /\ UNCHANGED <<plan, calls>>
    /\ UNCHANGED <<prog, args, hw, table, curve, full, k, loop>>

(***************************************************************************)
(* main of optimize_workflow.py.                                           *)
(***************************************************************************)

\* a call that leaves max_jobs out
workflow_call_without_max_jobs(max_jobs) ==
    Input(curve, hw.ram, args.mem_per_job[1], args.safe_mem, hw.cores, None)

\* the arguments main passes to best_thread_count (lines 178-180, 203-206, 233-236)
workflow_call(max_jobs) ==
    Input(curve, hw.ram, args.mem_per_job[1], args.safe_mem, hw.cores, max_jobs)

\* line 225: full_batches = total // best_jobs
workflow_full_batches(total, best_jobs) == total \div best_jobs

\* lines 154-175: the workflow's default RAM, mem-per-job against RAM, the filter
workflow_check ==
    /\ prog = "optimize_workflow"
    /\ pc = "start"
    /\ LET has_default == args.workflow \in DOMAIN DEFAULT_MEM_GB
           mem == IF args.mem_per_job # None THEN args.mem_per_job
                  ELSE IF has_default THEN <<DEFAULT_MEM_GB[args.workflow]>> ELSE None
       IN  IF mem = None
           THEN pc' = "parser.error" /\ UNCHANGED <<args, curve>>
           ELSE /\ args' = [args EXCEPT !.mem_per_job = mem]
                /\ IF mem[1] > hw.ram
                   THEN pc' = "SystemExit" /\ UNCHANGED curve
                   ELSE /\ curve' = curve_filter(table, hw.cores)
                        /\ pc' = IF DOMAIN curve' = {} THEN "SystemExit" ELSE "full"
    /\ UNCHANGED <<prog, hw, table, full, k, plan, calls, loop>>

\* lines 177-199: the unconstrained call, k, and the header of the report
workflow_full ==
    /\ prog = "optimize_workflow"
    /\ pc = "full"
    /\ LET inp == workflow_call(None)
           ret == workflow_best_thread_count(inp)
       IN  /\ calls' = Append(calls, Call(inp, ret))
           /\ full' = ret
           /\ IF ret.raised
              THEN pc' = "RuntimeError" /\ UNCHANGED <<k, plan>>
              ELSE /\ k' = scaling_factor(args.freq_scale, hw.cpu_mhz)
                   /\ plan' = [plan EXCEPT !.report = <<"header">>]
                   /\ pc' = "plan"
    /\ UNCHANGED <<prog, args, hw, table, curve, loop>>

\* lines 201-214: single batch
workflow_single ==
    /\ prog = "optimize_workflow"
    /\ pc = "plan"
    /\ 0 < args.subjects /\ args.subjects <= full.conc
    /\ LET inp == workflow_call(<<args.subjects>>)
           ret == workflow_best_thread_count(inp)
           tph2 == Scaled(ret.tph, k)
       IN  /\ calls' = Append(calls, Call(inp, ret))
           /\ IF ret.raised
              THEN pc' = "RuntimeError" /\ UNCHANGED plan
              ELSE /\ plan' = [plan EXCEPT !.path = "single",
                                           !.thr = ret.thr, !.jobs = ret.conc,
                                           !.tph = tph2,
                                           !.total_time = Seconds(args.subjects, tph2),
                                           !.report = plan.report \o <<"config", "time">>]
                   /\ pc' = "done"
    /\ UNCHANGED <<prog, args, hw, table, curve, full, k, loop>>

\* lines 216-231: phase 1 of the batching plan
workflow_phase1 ==
    /\ prog = "optimize_workflow"
    /\ pc = "plan"
    /\ ~(0 < args.subjects /\ args.subjects <= full.conc)
    /\ LET tph == Scaled(full.tph, k)
       IN  IF args.subjects <= 0
           THEN /\ plan' = [plan EXCEPT !.path = "two_phase",
                                        !.thr = full.thr, !.jobs = full.conc,
                                        !.tph = tph,
                                        !.report = plan.report \o <<"phase1">>]
                /\ pc' = "done"
           ELSE LET total == args.subjects
                    full_batches == workflow_full_batches(total, full.conc)
                    done == full_batches * full.conc
                IN  /\ plan' = [plan EXCEPT !.path = "two_phase",
                                            !.thr = full.thr, !.jobs = full.conc,
                                            !.tph = tph,
                                            !.full_batches = full_batches,
                                            !.full_jobs = done,
                                            !.t1 = Seconds(done, tph),
                                            !.remainder = total - done,
                                            !.report = plan.report \o <<"phase1", "time1">>]
                    /\ pc' = "remainder"
    /\ UNCHANGED <<prog, args, hw, table, curve, full, k, calls, loop>>

\* lines 232-249: the remainder batch and the total
workflow_phase2 ==
    /\ prog = "optimize_workflow"
    /\ pc = "remainder"
    /\ IF plan.remainder # 0
       THEN LET inp == workflow_call(<<plan.remainder>>)
                ret == workflow_best_thread_count(inp)
                tph_r == Scaled(ret.tph, k)
                t2 == Seconds(plan.remainder, tph_r)
            IN  /\ calls' = Append(calls, Call(inp, ret))
                /\ IF ret.raised
                   THEN pc' = "RuntimeError" /\ UNCHANGED plan
                   ELSE /\ plan' = [plan EXCEPT !.thr_rem = ret.thr, !.jobs_rem = ret.conc,
                                                !.tph_rem = tph_r, !.t2 = t2,
                                                !.total_time = RatAdd(plan.t1, t2),
                                                !.report = plan.report
                                                           \o <<"phase2", "time2", "total">>]
                        /\ pc' = "done"
       ELSE /\ plan' = [plan EXCEPT !.total_time = plan.t1,
                                    !.report = plan.report \o <<"total">>]
            /\ pc' = "done"
            /\ UNCHANGED calls
    /\ UNCHANGED <<prog, args, hw, table, curve, full, k, loop>>

(***************************************************************************)
(* Runs of main.  Spec: the scripts as they are, on every machine and      *)
(* command line of the bounds.                                             *)
(***************************************************************************)
Programs == {"optimize_throughput", "optimize_workflow"}

RUNTIME_TABLE(p) ==
    IF p = "optimize_throughput" THEN throughput_RUNTIME_TABLE ELSE workflow_RUNTIME_TABLE

\* --mem-per-job is required by optimize_throughput.py, optional in optimize_workflow.py
MemArgs(p) ==
    {<<m>> : m \in MemValues} \cup (IF p = "optimize_workflow" THEN {None} ELSE {})

ArgsOf(p) ==
    [workflow : DOMAIN RUNTIME_TABLE(p),
     subjects : 0..MaxSubjects,
     mem_per_job : MemArgs(p),
     safe_mem : SafeMemValues,
     freq_scale : {None} \cup {<<f>> : f \in FreqScaleValues}]

Hardware == [cores : 1..MaxCores, ram : RamValues, cpu_mhz : CpuMhzValues]

Idle == [phase |-> "idle"]

InitRun ==
    /\ prog \in Programs
    /\ args \in ArgsOf(prog)
    /\ hw \in Hardware
    /\ pc = "start"
    /\ curve = <<>>
    /\ full = NoResult
    /\ k = <<1, 1>>
    /\ plan = NoPlan
    /\ calls = <<>>
    /\ loop = Idle

Init ==
    /\ InitRun
    /\ table = RUNTIME_TABLE(prog)[args.workflow]

Next ==
    \/ throughput_check
    \/ throughput_full
    \/ throughput_ideal
    \/ throughput_single
    \/ throughput_phase1
    \/ throughput_phase2
    \/ workflow_check
    \/ workflow_full
    \/ workflow_single
    \/ workflow_phase1
    \/ workflow_phase2

Spec == Init /\ [][Next]_vars

(***************************************************************************)
(* SpecEdited: the same runs of main, the table of the selected workflow   *)
(* being either the one in the script or an edited one (the tables are the *)
(* scripts' user-editable section), on a machine with 64 GB.               *)
(***************************************************************************)
EditedTables ==
    { (8 :> 350000 @@ 12 :> 320000),
      (1 :> 1000000 @@ 2 :> 600000 @@ 4 :> 400000 @@ 8 :> 350000),
      (2 :> 600000 @@ 4 :> 300000 @@ 16 :> 300000) }

InitEdited ==
    /\ InitRun
    /\ hw.ram = 64 /\ hw.cpu_mhz = REFERENCE_CPU_FREQ_MHZ
    /\ table \in EditedTables \cup {RUNTIME_TABLE(prog)[args.workflow]}

SpecEdited == InitEdited /\ [][Next]_vars

(***************************************************************************)
(* SpecLoop: best_thread_count alone, on any curve and any valid input of  *)
(* the bounds, its loop taking the items of the curve in any order.        *)
(***************************************************************************)
LoopRuntimes == {300000, 600000}
LoopRam == {1, 4}
LoopMem == {1, 2}
LoopSafe == {<<1, 2>>, <<1, 1>>}

LoopCurves ==
    UNION { [keys -> LoopRuntimes] : keys \in SUBSET (1..MaxLoopT) }

LoopInputs ==
    { Input(c, r, m, s, n, j) :
        c \in LoopCurves, r \in LoopRam, m \in LoopMem, s \in LoopSafe,
        n \in 1..MaxLoopCores,
        j \in {None} \cup {<<x>> : x \in 1..MaxLoopJobs} }

InitLoop ==
    /\ prog \in Programs
    /\ args = [workflow |-> "sswarper", subjects |-> 0, mem_per_job |-> None,
               safe_mem |-> <<1, 1>>, freq_scale |-> None]
    /\ hw = [cores |-> 1, ram |-> 1, cpu_mhz |-> REFERENCE_CPU_FREQ_MHZ]
    /\ table = <<>>
    /\ pc = "function"
    /\ curve = <<>>
    /\ full = NoResult
    /\ k = <<1, 1>>
    /\ plan = NoPlan
    /\ calls = <<>>
    /\ loop \in { [phase |-> "loop", inp |-> i, todo |-> DOMAIN i.runtime_curve,
                   best |-> None, ret |-> NoResult] : i \in LoopInputs }

\* optimize_throughput.py lines 124-133: one item of the curve
throughput_loop_step ==
    /\ prog = "optimize_throughput"
    /\ loop.phase = "loop"
    /\ \E t \in loop.todo :
          loop' = [loop EXCEPT !.todo = loop.todo \ {t},
                               !.best = loop_body(loop.best, loop.inp, t)]
    /\ UNCHANGED <<prog, args, hw, table, pc, curve, full, k, plan, calls>>

\* optimize_workflow.py lines 110-119: one item of the curve
workflow_loop_step ==
    /\ prog = "optimize_workflow"
    /\ loop.phase = "loop"
    /\ \E t \in loop.todo :
          loop' = [loop EXCEPT !.todo = loop.todo \ {t},
                               !.best = workflow_loop_body(loop.best, loop.inp,
                                           ram_conc(loop.inp.total_ram, loop.inp.safe_frac,
                                                    loop.inp.mem_per_job), t)]
    /\ UNCHANGED <<prog, args, hw, table, pc, curve, full, k, plan, calls>>

\* the end of the loop: RuntimeError if best is None, else the result
loop_return ==
    /\ loop.phase = "loop"
    /\ loop.todo = {}
    /\ loop' = [loop EXCEPT !.phase = "returned", !.ret = result_of(loop.best)]
    /\ UNCHANGED <<prog, args, hw, table, pc, curve, full, k, plan, calls>>

NextLoop ==
    \/ throughput_loop_step
    \/ workflow_loop_step
    \/ loop_return

SpecLoop == InitLoop /\ [][NextLoop]_vars

(***************************************************************************)
(* Properties.                                                             *)
(***************************************************************************)
\* the (threads per job, jobs) pairs of the configuration tables printed so far
ReportedConfigs ==
    (IF plan.path # "none" THEN {<<plan.thr, plan.jobs>>} ELSE {})
    \cup (IF plan.t2 # None THEN {<<plan.thr_rem, plan.jobs_rem>>} ELSE {})

\* C1: every configuration optimize_throughput.py reports keeps the total RSS
\* within the RAM limit: concurrency * mem_per_job <= total_ram * safe_mem.
C1_RamNeverExceeded ==
    prog = "optimize_throughput" =>
        \A c \in ReportedConfigs :
            c[2] * args.mem_per_job[1] * args.safe_mem[2] <= hw.ram * args.safe_mem[1]

\* C2: every configuration optimize_throughput.py reports keeps the CPU threads
\* within the core count: thread_count * concurrency <= cores.
C2_ThreadsNeverExceedCores ==
    prog = "optimize_throughput" =>
        \A c \in ReportedConfigs : c[1] * c[2] <= hw.cores

\* C2 witness: a finished two-phase run whose remainder phase runs several
\* threads per job and uses every core
C2_Witness ==
    /\ prog = "optimize_throughput"
    /\ pc = "done"
    /\ plan.path = "two_phase"
    /\ plan.t2 # None
    /\ plan.thr_rem > 1
    /\ plan.thr_rem * plan.jobs_rem = hw.cores

\* the concurrency of thread count t: min(ram_conc, cpu_conc, max_jobs if given)
ExpectedConc(inp, t) ==
    Min({ (IF (inp.total_ram * inp.safe_frac[1]) \div (inp.mem_per_job * inp.safe_frac[2]) = 0
           THEN 1
           ELSE (inp.total_ram * inp.safe_frac[1]) \div (inp.mem_per_job * inp.safe_frac[2])),
          (IF inp.cores \div t = 0 THEN 1 ELSE inp.cores \div t) }
        \cup (IF inp.max_jobs = None THEN {} ELSE {inp.max_jobs[1]}))

\* C3: whatever the order in which the loop takes the items of the curve,
\* best_thread_count returns the lexicographic maximum of (throughput, t,
\* concurrency) over the thread counts of the curve: no t has a higher
\* throughput, and among equal throughputs the largest t is returned.
C3_LexicographicMaximum ==
    loop.phase = "returned" =>
        LET inp == loop.inp
            rt == inp.runtime_curve
            ret == loop.ret
        IN  IF DOMAIN rt = {}
            THEN ret.raised
            ELSE /\ ~ret.raised
                 /\ ret.thr \in DOMAIN rt
                 /\ ret.conc = ExpectedConc(inp, ret.thr)
                 /\ ret.tph[1] * rt[ret.thr] = ret.conc * ret.tph[2]
                 /\ \A t \in DOMAIN rt :
                       LET c == ExpectedConc(inp, t)
                       IN  \/ c * rt[ret.thr] < ret.conc * rt[t]
                           \/ c * rt[ret.thr] = ret.conc * rt[t] /\ t <= ret.thr

\* C3 witness: two thread counts tie on throughput, and the larger is returned
C3_Witness ==
    /\ loop.phase = "returned"
    /\ ~loop.ret.raised
    /\ \E t \in DOMAIN loop.inp.runtime_curve :
          /\ t < loop.ret.thr
          /\ ExpectedConc(loop.inp, t) * loop.inp.runtime_curve[loop.ret.thr]
               = loop.ret.conc * loop.inp.runtime_curve[t]

\* C6: on valid inputs the concurrency computed for every thread count, held
\* as the best so far, and returned is at least 1; a RAM or CPU capacity that
\* computes to 0 counts as 1.
C6_ConcurrencyAtLeastOne ==
    loop.phase \in {"loop", "returned"} =>
        LET inp == loop.inp
            rc == ram_conc(inp.total_ram, inp.safe_frac, inp.mem_per_job)
        IN  /\ rc >= 1
            /\ (inp.total_ram * inp.safe_frac[1]) \div (inp.mem_per_job * inp.safe_frac[2]) = 0
                  => rc = 1
            /\ \A t \in DOMAIN inp.runtime_curve :
                  /\ cpu_conc(inp.cores, t) >= 1
                  /\ inp.cores \div t = 0 => cpu_conc(inp.cores, t) = 1
                  /\ candidate(inp, t).conc >= 1
                  /\ workflow_candidate(inp, rc, t).conc >= 1
            /\ loop.best # None => loop.best[1].conc >= 1
            /\ (loop.phase = "returned" /\ ~loop.ret.raised) => loop.ret.conc >= 1

\* C6 witness: a returned result whose RAM and CPU capacities both computed to 0
C6_Witness ==
    /\ loop.phase = "returned"
    /\ ~loop.ret.raised
    /\ (loop.inp.total_ram * loop.inp.safe_frac[1])
          \div (loop.inp.mem_per_job * loop.inp.safe_frac[2]) = 0
    /\ loop.inp.cores \div loop.ret.thr = 0
    /\ loop.ret.conc = 1

\* the run re-ran the optimizer exactly once, with max_jobs = subjects, and
\* reports the single-phase plan built from that result
SinglePhaseFromRerun ==
    /\ Len(calls) = 2
    /\ calls[1].inp.max_jobs = None
    /\ calls[2].inp.max_jobs = <<args.subjects>>
    /\ plan.path = "single"
    /\ plan.thr = calls[2].ret.thr
    /\ plan.jobs = calls[2].ret.conc
    /\ plan.tph = Scaled(calls[2].ret.tph, k)
    /\ plan.total_time = Seconds(args.subjects, plan.tph)
    /\ plan.t1 = None /\ plan.t2 = None

\* C4 as stated: in both scripts, a finished run with 0 < subjects <= the
\* unconstrained optimal concurrency re-ran the optimizer exactly once with
\* max_jobs = subjects and reports a single-phase plan built from that result.
C4_AsStated ==
    (pc = "done" /\ args.subjects > 0 /\ args.subjects <= calls[1].ret.conc)
        => SinglePhaseFromRerun

\* C4 as amended: the same, in optimize_workflow.py always and in
\* optimize_throughput.py when the ideal shortcut (cores > subjects) does not
\* take the run first.
C4_SingleBatch ==
    (/\ pc = "done"
     /\ args.subjects > 0
     /\ args.subjects <= calls[1].ret.conc
     /\ (prog = "optimize_throughput" => ~(hw.cores > args.subjects)))
        => SinglePhaseFromRerun

\* C4 witness: optimize_workflow.py finishes a single batch of several jobs,
\* fewer than the unconstrained concurrency, on threads the re-run chose
C4_Witness ==
    /\ prog = "optimize_workflow"
    /\ pc = "done"
    /\ args.subjects > 1
    /\ args.subjects < calls[1].ret.conc
    /\ plan.path = "single"
    /\ plan.thr # calls[1].ret.thr

\* C5: every successful run with subjects > 0 reports a total wall-time
\* estimate, equal to phase-1 seconds plus phase-2 seconds (0 without a
\* remainder).
C5_TotalReported ==
    (pc = "done" /\ args.subjects > 0) =>
        /\ plan.total_time # None
        /\ plan.path = "two_phase" =>
              /\ "total" \in {plan.report[i] : i \in 1..Len(plan.report)}
              /\ RatEq(plan.total_time,
                       IF plan.t2 = None THEN plan.t1 ELSE RatAdd(plan.t1, plan.t2))

\* the preconditions of planning: mem-per-job known and within RAM, and a
\* thread count of the selected table within the cores
PreconditionsHold ==
    /\ args.mem_per_job # None
    /\ args.mem_per_job[1] <= hw.ram
    /\ \E t \in DOMAIN table : t <= hw.cores

\* C7: main calls best_thread_count only when the preconditions hold; a
\* violated precondition ends the run with a fatal exit, no call and no report;
\* no call gets an empty curve and the 'no candidate' RuntimeError never occurs.
C7_PreconditionsBeforePlanning ==
    /\ calls # <<>> => PreconditionsHold
    /\ \A i \in 1..Len(calls) :
          /\ DOMAIN calls[i].inp.runtime_curve # {}
          /\ ~calls[i].ret.raised
    /\ pc # "RuntimeError"
    /\ pc \in {"SystemExit", "parser.error"} => (calls = <<>> /\ plan.report = <<>>)
    /\ (pc # "start" /\ ~PreconditionsHold) => pc \in {"SystemExit", "parser.error"}

\* C7 witness: a run that ended fatally because no thread count of the table is
\* within the cores, mem-per-job being within RAM
C7_Witness ==
    /\ pc = "SystemExit"
    /\ args.mem_per_job[1] <= hw.ram
    /\ \A t \in DOMAIN table : t > hw.cores
    /\ calls = <<>>

\* C8: every curve main passes to best_thread_count holds only thread counts
\* t <= cores, and every thread count the optimizer returns is <= cores, in
\* the unconstrained, the single-batch and the remainder call.
C8_NoThreadCountAboveCores ==
    \A i \in 1..Len(calls) :
        /\ calls[i].inp.cores = hw.cores
        /\ \A t \in DOMAIN calls[i].inp.runtime_curve : t <= hw.cores
        /\ calls[i].ret.thr <= hw.cores

\* C8 witness: a finished run that made the unconstrained and the remainder
\* call on a machine with fewer cores than the table's largest thread count
C8_Witness ==
    /\ pc = "done"
    /\ Len(calls) = 2
    /\ plan.t2 # None
    /\ hw.cores > 1
    /\ \E t \in DOMAIN table : t > hw.cores

\* C9: in the two-phase path, with N = subjects and C = the full-phase
\* concurrency, full_batches = floor(N / C), the phase-1 job count is
\* full_batches * C, remainder = N - full_batches * C with 0 <= remainder < C,
\* and phase 2 is planned iff remainder > 0, with max_jobs = remainder.
C9_BatchArithmetic ==
    (plan.path = "two_phase" /\ args.subjects > 0 /\ pc \in {"remainder", "done"}) =>
        LET N == args.subjects
            C == calls[1].ret.conc
            fb == plan.full_batches
            rem == plan.remainder
        IN  /\ C >= 1
            /\ fb * C <= N /\ N < (fb + 1) * C
            /\ plan.full_jobs = fb * C
            /\ rem = N - fb * C
            /\ 0 <= rem /\ rem < C
            /\ pc = "done" =>
                  /\ rem > 0 <=> plan.t2 # None
                  /\ rem > 0 => (Len(calls) = 2 /\ calls[2].inp.max_jobs = <<rem>>)
                  /\ rem = 0 => Len(calls) = 1

\* C9 witness: a finished run of several full batches and a remainder
C9_Witness ==
    /\ pc = "done"
    /\ plan.path = "two_phase"
    /\ plan.full_batches >= 2
    /\ plan.remainder > 0
    /\ calls[1].ret.conc > plan.remainder + 1

\* C10: the shortcut of optimize_throughput.py is taken only when
\* cores > subjects > 0; it fixes concurrency at subjects; with ideal =
\* clamp(floor(cores / subjects), 1, CAP_THREADS), the reported thread count is
\* ideal when ideal is tabulated or strictly between two tabulated keys, and
\* below the least or above the greatest key the thread count and the runtime
\* are those of the nearest key.
C10_Shortcut ==
    plan.path = "ideal" =>
        /\ prog = "optimize_throughput"
        /\ args.subjects > 0 /\ hw.cores > args.subjects
        /\ plan.jobs = args.subjects
        /\ LET ideal == Min({Max({hw.cores \div args.subjects, 1}), CAP_THREADS})
               keys == DOMAIN table
           IN  /\ ideal \in keys => plan.thr = ideal
               /\ ((\E lo \in keys : lo < ideal) /\ (\E hi \in keys : hi > ideal))
                     => plan.thr = ideal
               /\ (\A t \in keys : t > ideal)
                     => (plan.thr = Min(keys) /\ plan.rt_min = <<table[Min(keys)], 1>>)
               /\ (\A t \in keys : t < ideal)
                     => (plan.thr = Max(keys) /\ plan.rt_min = <<table[Max(keys)], 1>>)

\* C10 witness: a shortcut run whose ideal thread count lies above the greatest
\* key of the table and is reported as that key
C10_Witness ==
    /\ plan.path = "ideal"
    /\ \A t \in DOMAIN table : t < Min({hw.cores \div args.subjects, CAP_THREADS})
    /\ plan.thr = Max(DOMAIN table)

\* a phase whose time is estimated: 1 <= concurrency <= job count, and the
\* division jobs / tph is by a throughput above zero
PhaseSound(conc, jobs, tph, secs) ==
    /\ 1 <= conc /\ conc <= jobs
    /\ tph[1] > 0 /\ tph[2] > 0
    /\ secs # None /\ secs[2] > 0

====
